---- MODULE Spec2Model ----
(***************************************************************************)
(* Model of codex-rs/core/src/client.rs: one call of ModelClient::stream,  *)
(* the retrying request loops of stream_responses and stream_gemini, the   *)
(* producing tasks (process_sse, the Chat forwarding task, the Gemini      *)
(* adapter task) and the consumer of the returned ResponseStream.          *)
(***************************************************************************)
EXTENDS Integers, Sequences, FiniteSets, TLC

\* ---------------------------------------------------------------- bounds
\* OPENAI_REQUEST_MAX_RETRIES: the configured retry ceiling (crate::flags).
MaxRetries == 2
\* Most frames the transport (or the aggregated Chat stream) delivers.
MaxFrames == 2
\* Most candidates of a Gemini response document.
MaxCands == 2
\* Most parts of one candidate's content.
MaxParts == 1
\* Frames of a long response: more than the channel holds.
MaxBurst == 18

\* mpsc::channel::<Result<ResponseEvent>>(16)
Capacity == 16

\* ------------------------------------------------------------- Option<T>
None == << >>
Some(x) == << x >>
IsSome(o) == Len(o) = 1
IsNone(o) == Len(o) = 0
Unwrap(o) == o[1]

\* ------------------------------------------------------------ HTTP status
Statuses == {200, 204, 301, 400, 404, 429, 500, 503}
\* StatusCode::is_success
is_success(s) == s >= 200 /\ s <= 299
\* StatusCode::is_server_error
is_server_error(s) == s >= 500 /\ s <= 599
TOO_MANY_REQUESTS == 429
\* Mutant: every client or server error status is retried.
RetryableAnyError(s) == s >= 400
\* The test `status == TOO_MANY_REQUESTS || status.is_server_error()`.
Retryable(s) == s = TOO_MANY_REQUESTS \/ is_server_error(s)

\* Mutant: the ceiling tested one attempt early (`attempt >= max`).
RetryLimitOffByOne(a) == a >= MaxRetries
\* `attempt > *OPENAI_REQUEST_MAX_RETRIES`
RetryLimitReached(a) == a > MaxRetries

\* Retry-After header of a response: absent, not a u64, or a number of seconds.
RetryAfterHeaders == {None, Some("soon"), Some("0"), Some("2")}
\* `s.parse::<u64>().ok()` on the header texts above
ParseU64(s) == IF s = "0" THEN Some(0) ELSE IF s = "2" THEN Some(2) ELSE None
\* `.get(RETRY_AFTER).and_then(|v| v.to_str().ok()).and_then(|s| s.parse::<u64>().ok())`
retry_after_secs(h) == IF IsSome(h) THEN ParseU64(Unwrap(h)) ELSE None
\* crate::util::backoff(attempt): kept symbolic, a function of the attempt.
backoff(a) == << "backoff", a >>
\* Duration::from_millis(ms)
from_millis(ms) == << "millis", ms >>
\* `retry_after_secs.map(|s| Duration::from_millis(s * 1_000))
\*      .unwrap_or_else(|| backoff(attempt))`
ResponsesDelay(h, a) ==
    IF IsSome(retry_after_secs(h))
    THEN from_millis(Unwrap(retry_after_secs(h)) * 1000)
    ELSE backoff(a)
\* stream_gemini: `let delay = backoff(attempt)`; the header is not read.
GeminiDelay(h, a) == backoff(a)

\* Bodies of a non-success response; res.text() may fail (unwrap_or_default).
Bodies == {"", "detail"}
unwrap_or_default(t) == IF IsSome(t) THEN Unwrap(t) ELSE ""

\* --------------------------------------------------------- ResponseEvent
OutputItemDone(item) == [kind |-> "OutputItemDone", val |-> item]
Completed(id) == [kind |-> "Completed", val |-> << id >>]
\* Err(CodexErr::Stream(msg))
StreamErr(msg) == [kind |-> "Error", val |-> << msg >>]

\* ------------------------------------------------------------ SSE frames
Items == {"i1", "i2"}
Ids == {"r1", "r2"}
\* A frame delivered by the eventsource stream: `data` that does not decode
\* as SseEvent, or an SseEvent {kind, response, item}.  "undecodable" marks
\* a JSON value that is not of the expected shape.
Frames ==
    { [json |-> FALSE, kind |-> "", response |-> None, item |-> None] }
    \cup { [json |-> TRUE, kind |-> "response.output_item.done",
            response |-> None, item |-> i] :
              i \in {None, Some("undecodable")} \cup {Some(x) : x \in Items} }
    \cup { [json |-> TRUE, kind |-> "response.completed",
            response |-> r, item |-> None] :
              r \in {None, Some("undecodable")} \cup {Some(x) : x \in Ids} }
    \cup { [json |-> TRUE, kind |-> k, response |-> None, item |-> None] :
              k \in {"response.created", "something.else"} }
\* serde_json::from_value::<ResponseItem>(item_val)
DecodeItem(v) == IF v \in Items THEN Some(<< "item", v >>) ELSE None
\* serde_json::from_value::<ResponseCompleted>(resp_val)
DecodeCompleted(v) == IF v \in Ids THEN Some(v) ELSE None

\* ------------------------------------------------ Gemini response document
Texts == {"a", "b"}
\* GeminiResponsePartInternal { text: Option<String> }
GeminiParts == { [text |-> t] : t \in {None} \cup {Some(x) : x \in Texts} }
SeqsUpTo(S, n) == UNION { [1..k -> S] : k \in 0..n }
\* GeminiContentResponsePart { parts: Option<Vec<..>> }
GeminiContents ==
    { [parts |-> p] : p \in {None} \cup {Some(x) : x \in SeqsUpTo(GeminiParts, MaxParts)} }
\* GeminiCandidate { content: Option<..> }
GeminiCandidates ==
    { [content |-> c] : c \in {None} \cup {Some(x) : x \in GeminiContents} }
\* GeminiGenerateContentResponse { candidates: Option<Vec<..>> }
GeminiDocs ==
    { [candidates |-> c] :
        c \in {None} \cup {Some(x) : x \in SeqsUpTo(GeminiCandidates, MaxCands)} }
\* uuid::Uuid::new_v4().to_string()
Uuids == {"uuid1", "uuid2"}

\* ------------------------------------------------------------------ state
VARIABLES
    wire_api,     \* self.provider.wire_api
    fixture,      \* CODEX_RS_SSE_FIXTURE is set
    has_key,      \* self.provider.api_key() yields a key
    call_pc,      \* where the call of stream() is
    attempt,      \* `let mut attempt`
    res,          \* the outcome of the latest request (status, Retry-After, what
                  \* reading its body yields) until the next request is issued
    delay,        \* `let delay` while sleeping
    result,       \* what stream() returned
    requests,     \* number of HTTP requests issued (history)
    sleeps,       \* number of tokio::time::sleep calls (history)
    consec,       \* consecutive 429/5xx responses received so far (history)
    spawned,      \* number of tokio::spawn calls (history)
    task_pc,      \* where the producing task is
    response_id,  \* process_sse: `let mut response_id`
    pending,      \* the value of the send the producer is suspended in
    chan,         \* the values buffered in the mpsc channel
    tx_open,      \* some Sender of the channel is alive
    rx_event,     \* the ResponseStream's receiver: "none", "alive", "dropped"
    got,          \* what the consumer has read (history)
    eos,          \* the consumer has read end-of-stream
    emitted,      \* every send on the channel, with its outcome (history)
    frames,       \* the frames read from the transport so far (history)
    ended,        \* how the transport reading ended (history)
    doc,          \* Gemini: the decoded response document
    pos           \* Gemini: << candidate index, part index >> of the last part visited

vars == << wire_api, fixture, has_key, call_pc, attempt, res, delay, result,
           requests, sleeps, consec, spawned, task_pc, response_id, pending,
           chan, tx_open, rx_event, got, eos, emitted, frames, ended, doc, pos >>

callVars == << call_pc, attempt, res, delay, result, requests, sleeps, consec >>
taskVars == << task_pc, response_id, pending, emitted, frames, ended, doc, pos >>
chanVars == << chan, tx_open, rx_event, got, eos >>
cfgVars == << wire_api, fixture, has_key >>

NoResult == [kind |-> "none", status |-> 0, body |-> ""]
\* Ok(ResponseStream { rx_event })
OkStream == [kind |-> "stream", status |-> 0, body |-> ""]
\* Err(CodexErr::..)
ErrResult(kind, status, body) == [kind |-> kind, status |-> status, body |-> body]
NoRes == [kind |-> "none", status |-> 0, header |-> None, body |-> None]

Init ==
    /\ wire_api \in {"Responses", "Chat", "Gemini"}
    /\ fixture \in BOOLEAN
    /\ (fixture => wire_api = "Responses")
    /\ has_key \in BOOLEAN
    /\ call_pc = "start"
    /\ attempt = 0
    /\ res = NoRes
    /\ delay = None
    /\ result = NoResult
    /\ requests = 0
    /\ sleeps = 0
    /\ consec = 0
    /\ spawned = 0
    /\ task_pc = "none"
    /\ response_id = None
    /\ pending = None
    /\ chan = << >>
    /\ tx_open = FALSE
    /\ rx_event = "none"
    /\ got = << >>
    /\ eos = FALSE
    /\ emitted = << >>
    /\ frames = << >>
    /\ ended = "no"
    /\ doc = None
    /\ pos = << 0, 0 >>

\* `return Err(e)` from stream(): nothing was spawned, no channel is left.
ReturnErr(kind, status, body) ==
    /\ call_pc' = "returned"
    /\ result' = ErrResult(kind, status, body)

\* `let (tx_event, rx_event) = mpsc::channel(16); tokio::spawn(..);
\*  return Ok(ResponseStream { rx_event })` with the task suspended at `at`.
SpawnAndReturn(at) ==
    /\ call_pc' = "returned"
    /\ result' = OkStream
    /\ spawned' = spawned + 1
    /\ task_pc' = at
    /\ tx_open' = TRUE
    /\ rx_event' = "alive"
    /\ chan' = << >>

\* ---------------------------------------------- stream_responses (186-283)
\* `if let Some(path) = &*CODEX_RS_SSE_FIXTURE { return stream_from_fixture(path).await }`
\* File::open or a line read may fail (`?`); otherwise process_sse is spawned
\* on the file's content.
stream_from_fixture ==
    /\ call_pc = "start" /\ wire_api = "Responses" /\ fixture
    /\ \/ /\ ReturnErr("Io", 0, "")
          /\ UNCHANGED << spawned, task_pc, chan, tx_open, rx_event >>
       \/ SpawnAndReturn("read")
    /\ UNCHANGED << cfgVars, attempt, res, delay, requests, sleeps, consec,
                    response_id, pending, got, eos, emitted, frames, ended, doc, pos >>

\* The payload is built and the loop is entered with `attempt = 0`.
stream_responses ==
    /\ call_pc = "start" /\ wire_api = "Responses" /\ ~fixture
    /\ call_pc' = "loop"
    /\ UNCHANGED << cfgVars, attempt, res, delay, result, requests, sleeps, consec,
                    spawned, taskVars, chanVars >>

\* Mutant: the request is issued before the credential is looked at.
ResponsesSendKeyLate ==
    /\ call_pc = "loop" /\ wire_api = "Responses"
    /\ attempt <= MaxRetries + 1
    /\ attempt' = attempt + 1
    /\ requests' = requests + 1
    /\ IF has_key
       THEN /\ call_pc' = "request"
            /\ result' = result
       ELSE ReturnErr("EnvVar", 0, "")
    /\ res' = NoRes
    /\ UNCHANGED << cfgVars, delay, sleeps, consec, spawned, taskVars, chanVars >>
\* Mutant: a stream that ended in an error is retried with a new request.
ResponsesSendAfterStreamFailure ==
    /\ wire_api = "Responses"
    /\ \/ call_pc = "loop"
       \/ (call_pc = "returned" /\ task_pc = "done" /\ ended \in {"frame_err", "idle_timeout"})
    /\ attempt <= MaxRetries + 1
    /\ attempt' = attempt + 1
    /\ IF has_key
       THEN /\ requests' = requests + 1
            /\ call_pc' = "request"
            /\ result' = result
       ELSE /\ ReturnErr("EnvVar", 0, "")
            /\ requests' = requests
    /\ res' = NoRes
    /\ UNCHANGED << cfgVars, delay, sleeps, consec, spawned, taskVars, chanVars >>
\* `attempt += 1; let api_key = ..ok_or_else(EnvVar)?; ...send().await`
ResponsesSend ==
    /\ call_pc = "loop" /\ wire_api = "Responses"
    /\ attempt <= MaxRetries + 1
    /\ attempt' = attempt + 1
    /\ IF has_key
       THEN /\ requests' = requests + 1
            /\ call_pc' = "request"
            /\ result' = result
       ELSE /\ ReturnErr("EnvVar", 0, "")
            /\ requests' = requests
    /\ res' = NoRes
    /\ UNCHANGED << cfgVars, delay, sleeps, consec, spawned, taskVars, chanVars >>

\* `Ok(resp) if resp.status().is_success()`: spawn process_sse, return the stream.
ResponsesSuccess ==
    /\ call_pc = "request" /\ wire_api = "Responses"
    /\ \E s \in Statuses :
         /\ is_success(s)
         /\ SpawnAndReturn("read")
         /\ res' = NoRes
         /\ consec' = 0
    /\ UNCHANGED << cfgVars, attempt, delay, requests, sleeps,
                    response_id, pending, got, eos, emitted, frames, ended, doc, pos >>

\* `Ok(res)` with a non-success status (243-273).
ResponsesStatus ==
    /\ call_pc = "request" /\ wire_api = "Responses"
    /\ \E s \in Statuses, h \in RetryAfterHeaders, t \in {None} \cup {Some(b) : b \in Bodies} :
         /\ ~is_success(s)
         /\ res' = [kind |-> "status", status |-> s, header |-> h, body |-> t]
         /\ consec' = IF Retryable(s) THEN consec + 1 ELSE 0
         /\ IF ~Retryable(s)
            THEN /\ ReturnErr("UnexpectedStatus", s, unwrap_or_default(t))
                 /\ delay' = delay
            ELSE IF RetryLimitReached(attempt)
            THEN /\ ReturnErr("RetryLimit", s, "")
                 /\ delay' = delay
            ELSE /\ delay' = Some(ResponsesDelay(h, attempt))
                 /\ call_pc' = "sleep"
                 /\ result' = result
    /\ UNCHANGED << cfgVars, attempt, requests, sleeps, spawned, taskVars, chanVars >>

\* Mutant: a transport failure is retried without counting as an attempt.
ResponsesTransportErrUncounted ==
    /\ call_pc = "request" /\ wire_api = "Responses"
    /\ res' = [kind |-> "transport", status |-> 0, header |-> None, body |-> None]
    /\ consec' = consec
    /\ attempt' = attempt - 1
    /\ delay' = Some(backoff(attempt))
    /\ call_pc' = "sleep"
    /\ result' = result
    /\ UNCHANGED << cfgVars, requests, sleeps, spawned, taskVars, chanVars >>
\* `Err(e)`: the request failed at the transport level (274-280).
ResponsesTransportErr ==
    /\ call_pc = "request" /\ wire_api = "Responses"
    /\ res' = [kind |-> "transport", status |-> 0, header |-> None, body |-> None]
    /\ consec' = consec
    /\ IF RetryLimitReached(attempt)
       THEN /\ ReturnErr("Reqwest", 0, "")
            /\ delay' = delay
       ELSE /\ delay' = Some(backoff(attempt))
            /\ call_pc' = "sleep"
            /\ result' = result
    /\ UNCHANGED << cfgVars, attempt, requests, sleeps, spawned, taskVars, chanVars >>

\* `tokio::time::sleep(delay).await` is over: back to the top of the loop.
Sleep ==
    /\ call_pc = "sleep"
    /\ call_pc' = "loop"
    /\ sleeps' = sleeps + 1
    /\ delay' = None
    /\ UNCHANGED << cfgVars, attempt, res, result, requests, consec, spawned,
                    taskVars, chanVars >>

\* ------------------------------------------------- stream_gemini (103-182)
\* `let api_key = self.provider.api_key()?.ok_or_else(EnvVar)?;` then the
\* request is built and the loop is entered with `attempt = 0`.
stream_gemini ==
    /\ call_pc = "start" /\ wire_api = "Gemini"
    /\ IF has_key
       THEN call_pc' = "loop" /\ result' = result
       ELSE ReturnErr("EnvVar", 0, "")
    /\ UNCHANGED << cfgVars, attempt, res, delay, requests, sleeps, consec,
                    spawned, taskVars, chanVars >>

\* `attempt += 1; ...send().await`
GeminiSend ==
    /\ call_pc = "loop" /\ wire_api = "Gemini"
    /\ attempt <= MaxRetries + 1
    /\ attempt' = attempt + 1
    /\ requests' = requests + 1
    /\ call_pc' = "request"
    /\ res' = NoRes
    /\ UNCHANGED << cfgVars, delay, result, sleeps, consec, spawned, taskVars, chanVars >>

\* `Ok(resp) if resp.status().is_success()`: the channel is made and the
\* call waits for `resp.bytes().await`.
GeminiSuccess ==
    /\ call_pc = "request" /\ wire_api = "Gemini"
    /\ \E s \in Statuses :
         /\ is_success(s)
         /\ call_pc' = "bytes"
         /\ res' = NoRes
         /\ consec' = 0
    /\ UNCHANGED << cfgVars, attempt, delay, result, requests, sleeps, spawned,
                    taskVars, chanVars >>

\* `resp.bytes().await.map_err(CodexErr::Reqwest)?`
GeminiBytesErr ==
    /\ call_pc = "bytes"
    /\ ReturnErr("Reqwest", 0, "")
    /\ UNCHANGED << cfgVars, attempt, res, delay, requests, sleeps, consec,
                    spawned, taskVars, chanVars >>

\* Mutant: the synthetic Completed is sent after the parse error as well.
GeminiParseErrThenCompleted ==
    /\ call_pc = "bytes"
    /\ call_pc' = "returned"
    /\ result' = OkStream
    /\ \E u \in Uuids :
         /\ emitted' = emitted \o
                << [ev |-> StreamErr("Failed to parse Gemini response"),
                    ok |-> TRUE, by |-> "call"],
                   [ev |-> Completed(u), ok |-> TRUE, by |-> "call"] >>
         /\ chan' = << StreamErr("Failed to parse Gemini response"), Completed(u) >>
    /\ tx_open' = FALSE
    /\ rx_event' = "alive"
    /\ UNCHANGED << cfgVars, attempt, res, delay, requests, sleeps, consec, spawned,
                    task_pc, response_id, pending, got, eos, frames, ended, doc, pos >>
\* serde_json::from_slice fails: the error is sent from stream_gemini itself
\* (the channel is empty, so the send completes), tx_event is dropped at the
\* return, and the stream is returned.  No task is spawned.
GeminiParseErr ==
    /\ call_pc = "bytes"
    /\ call_pc' = "returned"
    /\ result' = OkStream
    /\ emitted' = Append(emitted,
                    [ev |-> StreamErr("Failed to parse Gemini response"),
                     ok |-> TRUE, by |-> "call"])
    /\ chan' = << StreamErr("Failed to parse Gemini response") >>
    /\ tx_open' = FALSE
    /\ rx_event' = "alive"
    /\ UNCHANGED << cfgVars, attempt, res, delay, requests, sleeps, consec, spawned,
                    task_pc, response_id, pending, got, eos, frames, ended, doc, pos >>

\* serde_json::from_slice succeeds: the adapter task is spawned.
GeminiParsed ==
    /\ call_pc = "bytes"
    /\ \E d \in GeminiDocs : doc' = Some(d)
    /\ SpawnAndReturn("gemini")
    /\ UNCHANGED << cfgVars, attempt, res, delay, requests, sleeps, consec,
                    response_id, pending, got, eos, emitted, frames, ended, pos >>

\* `Ok(res)` with a non-success status (161-172); the body is read first.
GeminiStatus ==
    /\ call_pc = "request" /\ wire_api = "Gemini"
    /\ \E s \in Statuses, h \in RetryAfterHeaders, t \in {None} \cup {Some(b) : b \in Bodies} :
         /\ ~is_success(s)
         /\ res' = [kind |-> "status", status |-> s, header |-> h, body |-> t]
         /\ consec' = IF Retryable(s) THEN consec + 1 ELSE 0
         /\ IF ~Retryable(s)
            THEN /\ ReturnErr("UnexpectedStatus", s, unwrap_or_default(t))
                 /\ delay' = delay
            ELSE IF RetryLimitReached(attempt)
            THEN /\ ReturnErr("RetryLimit", s, "")
                 /\ delay' = delay
            ELSE /\ delay' = Some(GeminiDelay(h, attempt))
                 /\ call_pc' = "sleep"
                 /\ result' = result
    /\ UNCHANGED << cfgVars, attempt, requests, sleeps, spawned, taskVars, chanVars >>

\* Mutant: a transport failure is returned at once, whatever the attempt.
GeminiTransportErrNoRetry ==
    /\ call_pc = "request" /\ wire_api = "Gemini"
    /\ res' = [kind |-> "transport", status |-> 0, header |-> None, body |-> None]
    /\ consec' = consec
    /\ ReturnErr("Reqwest", 0, "")
    /\ delay' = delay
    /\ UNCHANGED << cfgVars, attempt, requests, sleeps, spawned, taskVars, chanVars >>
\* `Err(e)`: the request failed at the transport level (173-179).
GeminiTransportErr ==
    /\ call_pc = "request" /\ wire_api = "Gemini"
    /\ res' = [kind |-> "transport", status |-> 0, header |-> None, body |-> None]
    /\ consec' = consec
    /\ IF RetryLimitReached(attempt)
       THEN /\ ReturnErr("Reqwest", 0, "")
            /\ delay' = delay
       ELSE /\ delay' = Some(backoff(attempt))
            /\ call_pc' = "sleep"
            /\ result' = result
    /\ UNCHANGED << cfgVars, attempt, requests, sleeps, spawned, taskVars, chanVars >>

\* ------------------------------------------------ stream, WireApi::Chat (71-97)
\* `stream_chat_completions(..).await?` fails, or yields the raw stream, which
\* is aggregated and forwarded by a spawned task.
stream_chat ==
    /\ call_pc = "start" /\ wire_api = "Chat"
    /\ \/ /\ ReturnErr("Chat", 0, "")
          /\ UNCHANGED << spawned, task_pc, chan, tx_open, rx_event >>
       \/ SpawnAndReturn("chat")
    /\ UNCHANGED << cfgVars, attempt, res, delay, requests, sleeps, consec,
                    response_id, pending, got, eos, emitted, frames, ended, doc, pos >>

\* --------------------------------------------------- process_sse (299-413)
\* The kinds matched by the arm that ignores them (397-406).
IgnoredKinds ==
    { "response.content_part.done", "response.created",
      "response.function_call_arguments.delta", "response.in_progress",
      "response.output_item.added", "response.output_text.delta",
      "response.output_text.done", "response.reasoning_summary_part.added",
      "response.reasoning_summary_text.delta", "response.reasoning_summary_text.done" }

Skip(rid) == [response_id |-> rid, emit |-> None]

\* Mutant: an item that is missing or does not decode is reported as an error.
HandleFrameStrict(f, rid) ==
    IF ~f.json THEN Skip(rid)
    ELSE IF f.kind = "response.output_item.done"
    THEN IF IsNone(f.item) \/ IsNone(DecodeItem(Unwrap(f.item)))
         THEN [response_id |-> rid, emit |-> Some(StreamErr("bad item"))]
         ELSE [response_id |-> rid,
               emit |-> Some(OutputItemDone(Unwrap(DecodeItem(Unwrap(f.item)))))]
    ELSE IF f.kind = "response.completed"
    THEN IF IsNone(f.response) THEN Skip(rid)
         ELSE IF IsNone(DecodeCompleted(Unwrap(f.response))) THEN Skip(rid)
         ELSE [response_id |-> Some(Unwrap(DecodeCompleted(Unwrap(f.response)))),
               emit |-> None]
    ELSE Skip(rid)
\* Mutant: the "response.completed" arm sends Completed as soon as it has the id.
HandleFrameCompletesAtOnce(f, rid) ==
    IF ~f.json THEN Skip(rid)
    ELSE IF f.kind = "response.output_item.done"
    THEN IF IsNone(f.item) THEN Skip(rid)
         ELSE IF IsNone(DecodeItem(Unwrap(f.item))) THEN Skip(rid)
         ELSE [response_id |-> rid,
               emit |-> Some(OutputItemDone(Unwrap(DecodeItem(Unwrap(f.item)))))]
    ELSE IF f.kind = "response.completed"
    THEN IF IsNone(f.response) THEN Skip(rid)
         ELSE IF IsNone(DecodeCompleted(Unwrap(f.response))) THEN Skip(rid)
         ELSE [response_id |-> Some(Unwrap(DecodeCompleted(Unwrap(f.response)))),
               emit |-> Some(Completed(Unwrap(DecodeCompleted(Unwrap(f.response)))))]
    ELSE Skip(rid)
\* Mutant: a "response.completed" frame without a decodable id forgets the id.
HandleFrameClearsId(f, rid) ==
    IF ~f.json THEN Skip(rid)
    ELSE IF f.kind = "response.output_item.done"
    THEN IF IsNone(f.item) THEN Skip(rid)
         ELSE IF IsNone(DecodeItem(Unwrap(f.item))) THEN Skip(rid)
         ELSE [response_id |-> rid,
               emit |-> Some(OutputItemDone(Unwrap(DecodeItem(Unwrap(f.item)))))]
    ELSE IF f.kind = "response.completed"
    THEN IF IsNone(f.response) THEN Skip(None)
         ELSE IF IsNone(DecodeCompleted(Unwrap(f.response))) THEN Skip(None)
         ELSE [response_id |-> Some(Unwrap(DecodeCompleted(Unwrap(f.response)))),
               emit |-> None]
    ELSE Skip(rid)
\* Mutant: the "response.completed" arm does not record the id.
HandleFrameNoId(f, rid) ==
    IF f.json /\ f.kind = "response.output_item.done" /\ IsSome(f.item)
       /\ IsSome(DecodeItem(Unwrap(f.item)))
    THEN [response_id |-> rid,
          emit |-> Some(OutputItemDone(Unwrap(DecodeItem(Unwrap(f.item)))))]
    ELSE Skip(rid)
\* The body of the loop for a frame `sse` (343-411): the new response_id and
\* the event to send, if any.
HandleFrame(f, rid) ==
    IF ~f.json THEN Skip(rid)
    ELSE IF f.kind = "response.output_item.done"
    THEN IF IsNone(f.item) THEN Skip(rid)
         ELSE IF IsNone(DecodeItem(Unwrap(f.item))) THEN Skip(rid)
         ELSE [response_id |-> rid,
               emit |-> Some(OutputItemDone(Unwrap(DecodeItem(Unwrap(f.item)))))]
    ELSE IF f.kind = "response.completed"
    THEN IF IsNone(f.response) THEN Skip(rid)
         ELSE IF IsNone(DecodeCompleted(Unwrap(f.response))) THEN Skip(rid)
         ELSE [response_id |-> Some(Unwrap(DecodeCompleted(Unwrap(f.response)))),
               emit |-> None]
    ELSE IF f.kind \in IgnoredKinds THEN Skip(rid)
    ELSE Skip(rid)

\* Mutant: a close with no id captured completes with a default id.
OnClosedDefaultId(rid) == IF IsSome(rid) THEN Completed(Unwrap(rid)) ELSE Completed("")
\* `Ok(None)` (319-334): what is sent when the transport closes.
OnClosed(rid) ==
    IF IsSome(rid) THEN Completed(Unwrap(rid))
    ELSE StreamErr("stream closed before response.completed")

\* One pass of the loop for the frame `f` (343-411).
SseRead(f) ==
    LET h == HandleFrame(f, response_id) IN
    /\ task_pc = "read"
    /\ frames' = Append(frames, f)
    /\ response_id' = h.response_id
    /\ pending' = h.emit
    /\ task_pc' = IF IsSome(h.emit) THEN "sse_send" ELSE "read"
    /\ UNCHANGED << cfgVars, callVars, spawned, chanVars, emitted, ended, doc, pos >>

\* `Ok(Some(Ok(sse)))`: a frame arrives before the idle timeout.
SseFrame ==
    /\ Len(frames) < MaxFrames
    /\ \E f \in Frames : SseRead(f)

\* A long response: frame k carries an output item, alternately i1 and i2.
BurstFrame(k) ==
    [json |-> TRUE, kind |-> "response.output_item.done", response |-> None,
     item |-> Some(IF k % 2 = 1 THEN "i1" ELSE "i2")]
IsBurst(fs) == \A k \in 1..Len(fs) : fs[k] = BurstFrame(k)
\* `Ok(Some(Ok(sse)))` for the next frame of a long response.
SseBurstFrame ==
    /\ Len(frames) < MaxBurst
    /\ IsBurst(frames)
    /\ SseRead(BurstFrame(Len(frames) + 1))

\* The three ways out of the read (313-340): each sends one value and returns.
SseEnd(how, ev) ==
    /\ task_pc = "read"
    /\ ended' = how
    /\ pending' = Some(ev)
    /\ task_pc' = "final_send"
    /\ UNCHANGED << cfgVars, callVars, spawned, chanVars, response_id, emitted,
                    frames, doc, pos >>

\* Mutant: the error of a bad frame is sent and the loop goes on reading.
SseFrameErrKeepsReading ==
    /\ task_pc = "read"
    /\ ended' = "frame_err"
    /\ pending' = Some(StreamErr("sse error"))
    /\ task_pc' = "sse_send"
    /\ UNCHANGED << cfgVars, callVars, spawned, chanVars, response_id, emitted,
                    frames, doc, pos >>
\* `Ok(Some(Err(e)))`: malformed SSE framing or a transport error.
SseFrameErr == SseEnd("frame_err", StreamErr("sse error"))
\* `Ok(None)`: the transport closed.
SseClosed == SseEnd("closed", OnClosed(response_id))
\* Mutant: the idle timeout returns without sending anything.
SseIdleTimeoutSilent ==
    /\ task_pc = "read"
    /\ ended' = "idle_timeout"
    /\ task_pc' = "done"
    /\ tx_open' = FALSE
    /\ UNCHANGED << cfgVars, callVars, spawned, chan, rx_event, got, eos,
                    response_id, pending, emitted, frames, doc, pos >>
\* Mutant: the idle timeout is handled like a close of the transport.
SseIdleTimeoutAsClose == SseEnd("idle_timeout", OnClosed(response_id))
\* `Err(_)`: no frame within idle_timeout.
SseIdleTimeout == SseEnd("idle_timeout", StreamErr("idle timeout waiting for SSE"))

\* ------------------------------------- process_gemini_response (499-527)
\* The positions << candidate, part >> the nested loops visit.
GeminiPositions(d) ==
    IF IsNone(d.candidates) THEN {}
    ELSE LET cs == Unwrap(d.candidates) IN
         UNION { IF IsSome(cs[c].content) /\ IsSome(Unwrap(cs[c].content).parts)
                 THEN { << c, k >> : k \in 1..Len(Unwrap(Unwrap(cs[c].content).parts)) }
                 ELSE {} : c \in 1..Len(cs) }
PartAt(d, q) == Unwrap(Unwrap(Unwrap(d.candidates)[q[1]].content).parts)[q[2]]
PosLess(p, q) == p[1] < q[1] \/ (p[1] = q[1] /\ p[2] < q[2])
\* Mutant: only the first candidate is looked at.
TextsAfterFirstCandidate(d, p) ==
    { q \in GeminiPositions(d) : q[1] = 1 /\ PosLess(p, q) /\ IsSome(PartAt(d, q).text) }
\* The positions after p whose part has `Some(text)`.
TextsAfter(d, p) ==
    { q \in GeminiPositions(d) : PosLess(p, q) /\ IsSome(PartAt(d, q).text) }
FirstPos(S) == CHOOSE q \in S : \A r \in S : r = q \/ PosLess(q, r)
\* ResponseItem::Message { role: "assistant", content: [OutputText { text }], .. }
GeminiItem(text) == << "Message", "assistant", text >>

\* The loops run to the next part with text and the task suspends in the
\* send of its OutputItemDone (517).
GeminiNextPart ==
    /\ task_pc = "gemini"
    /\ TextsAfter(Unwrap(doc), pos) # {}
    /\ LET q == FirstPos(TextsAfter(Unwrap(doc), pos)) IN
         /\ pos' = q
         /\ pending' = Some(OutputItemDone(GeminiItem(Unwrap(PartAt(Unwrap(doc), q).text))))
    /\ task_pc' = "gemini_send"
    /\ UNCHANGED << cfgVars, callVars, spawned, chanVars, response_id, emitted,
                    frames, ended, doc >>

\* The synthetic Completed the task sends after process_gemini_response (151).
GeminiCompleted(u) == Completed(u)

\* The loops are over: process_gemini_response returns and the task sends
\* the synthetic Completed (151).
GeminiPartsDone ==
    /\ task_pc = "gemini"
    /\ TextsAfter(Unwrap(doc), pos) = {}
    /\ \E u \in Uuids : pending' = Some(GeminiCompleted(u))
    /\ task_pc' = "final_send"
    /\ ended' = "closed"
    /\ UNCHANGED << cfgVars, callVars, spawned, chanVars, response_id, emitted,
                    frames, doc, pos >>

\* ------------------------------------ the Chat forwarding task (86-94)
\* What the aggregated stream may yield.
ChatEvents ==
    { OutputItemDone(<< "item", i >>) : i \in Items }
    \cup { Completed(r) : r \in Ids } \cup { StreamErr("chat error") }

\* `while let Some(ev) = aggregated.next().await`: an event to forward.
ChatNext ==
    /\ task_pc = "chat"
    /\ Len(frames) < MaxFrames
    /\ \E ev \in ChatEvents :
         /\ frames' = Append(frames, ev)
         /\ pending' = Some(ev)
    /\ task_pc' = "chat_send"
    /\ UNCHANGED << cfgVars, callVars, spawned, chanVars, response_id, emitted,
                    ended, doc, pos >>

\* `aggregated.next()` yields None: the loop and the task end, tx is dropped.
ChatEnd ==
    /\ task_pc = "chat"
    /\ task_pc' = "done"
    /\ ended' = "closed"
    /\ tx_open' = FALSE
    /\ UNCHANGED << cfgVars, callVars, spawned, chan, rx_event, got, eos,
                    response_id, pending, emitted, frames, doc, pos >>

\* ------------------------------------------------ tx_event.send(..).await
Sending == {"sse_send", "gemini_send", "chat_send", "final_send"}

\* Mutant: no `return` after the last send of process_sse: the loop goes on.
AfterSendNoReturn(pc, ok) ==
    IF pc = "sse_send" THEN (IF ok THEN "read" ELSE "done")
    ELSE IF pc = "chat_send" THEN (IF ok THEN "chat" ELSE "done")
    ELSE IF pc = "gemini_send" THEN (IF ok THEN "gemini" ELSE "final_send")
    ELSE IF wire_api = "Responses" /\ ok THEN "read"
    ELSE "done"
\* Where the task goes once its send returns `ok`.
\*   process_sse: `if tx_event.send(..).await.is_err() { return; }` (379-381)
\*   Chat task:   `if tx.send(ev).await.is_err() { break; }` (90-92)
\*   process_gemini_response: `.is_err() { return; }` (517-519), after which
\*     the task goes on to the send of the synthetic Completed (151)
\*   the last send of a task: `let _ = tx_event.send(..).await; return`
AfterSend(pc, ok) ==
    IF pc = "sse_send" THEN (IF ok THEN "read" ELSE "done")
    ELSE IF pc = "chat_send" THEN (IF ok THEN "chat" ELSE "done")
    ELSE IF pc = "gemini_send" THEN (IF ok THEN "gemini" ELSE "final_send")
    ELSE "done"

\* Mutant: the channel takes any number of values.
SendOkUnbounded ==
    /\ task_pc \in Sending
    /\ rx_event = "alive"
    /\ chan' = Append(chan, Unwrap(pending))
    /\ emitted' = Append(emitted, [ev |-> Unwrap(pending), ok |-> TRUE, by |-> "task"])
    /\ pending' = None
    /\ task_pc' = AfterSend(task_pc, TRUE)
    /\ tx_open' = (AfterSend(task_pc, TRUE) # "done")
    /\ UNCHANGED << cfgVars, callVars, spawned, rx_event, got, eos, response_id,
                    frames, ended, doc, pos >>
\* Mutant: the sent value is put in front of the values already buffered.
SendOkPrepend ==
    /\ task_pc \in Sending
    /\ rx_event = "alive"
    /\ Len(chan) < Capacity
    /\ chan' = << Unwrap(pending) >> \o chan
    /\ emitted' = Append(emitted, [ev |-> Unwrap(pending), ok |-> TRUE, by |-> "task"])
    /\ pending' = None
    /\ task_pc' = AfterSend(task_pc, TRUE)
    /\ tx_open' = (AfterSend(task_pc, TRUE) # "done")
    /\ UNCHANGED << cfgVars, callVars, spawned, rx_event, got, eos, response_id,
                    frames, ended, doc, pos >>
\* The send completes: the receiver is alive and the channel has room.
SendOk ==
    /\ task_pc \in Sending
    /\ rx_event = "alive"
    /\ Len(chan) < Capacity
    /\ chan' = Append(chan, Unwrap(pending))
    /\ emitted' = Append(emitted, [ev |-> Unwrap(pending), ok |-> TRUE, by |-> "task"])
    /\ pending' = None
    /\ task_pc' = AfterSend(task_pc, TRUE)
    /\ tx_open' = (AfterSend(task_pc, TRUE) # "done")
    /\ UNCHANGED << cfgVars, callVars, spawned, rx_event, got, eos, response_id,
                    frames, ended, doc, pos >>

\* The send fails: the receiver was dropped.
SendFail ==
    /\ task_pc \in Sending
    /\ rx_event = "dropped"
    /\ emitted' = Append(emitted, [ev |-> Unwrap(pending), ok |-> FALSE, by |-> "task"])
    /\ task_pc' = AfterSend(task_pc, FALSE)
    /\ IF AfterSend(task_pc, FALSE) = "final_send"
       THEN \E u \in Uuids : pending' = Some(GeminiCompleted(u))
       ELSE pending' = None
    /\ tx_open' = (AfterSend(task_pc, FALSE) # "done")
    /\ UNCHANGED << cfgVars, callVars, spawned, chan, rx_event, got, eos,
                    response_id, frames, ended, doc, pos >>

\* ------------------------------------------- the consumer of ResponseStream
\* `rx_event.recv().await` yields a buffered value.
Recv ==
    /\ rx_event = "alive" /\ ~eos
    /\ chan # << >>
    /\ got' = Append(got, Head(chan))
    /\ chan' = Tail(chan)
    /\ UNCHANGED << cfgVars, callVars, spawned, taskVars, tx_open, rx_event, eos >>

\* `rx_event.recv().await` yields None: the channel is empty and closed.
RecvNone ==
    /\ rx_event = "alive" /\ ~eos
    /\ chan = << >> /\ ~tx_open
    /\ eos' = TRUE
    /\ UNCHANGED << cfgVars, callVars, spawned, taskVars, chan, tx_open, rx_event, got >>

\* The ResponseStream is dropped; buffered values are discarded.
Drop ==
    /\ rx_event = "alive"
    /\ rx_event' = "dropped"
    /\ chan' = << >>
    /\ UNCHANGED << cfgVars, callVars, spawned, taskVars, tx_open, got, eos >>

\* ------------------------------------------------------------ specification
Call ==
    \/ stream_from_fixture \/ stream_responses \/ ResponsesSend \/ ResponsesSuccess
    \/ ResponsesStatus \/ ResponsesTransportErr \/ Sleep
    \/ stream_gemini \/ GeminiSend \/ GeminiSuccess \/ GeminiBytesErr
    \/ GeminiParseErr \/ GeminiParsed \/ GeminiStatus \/ GeminiTransportErr
    \/ stream_chat

Task ==
    \/ SseFrame \/ SseFrameErr \/ SseClosed \/ SseIdleTimeout
    \/ GeminiNextPart \/ GeminiPartsDone
    \/ ChatNext \/ ChatEnd
    \/ SendOk \/ SendFail

Next == Call \/ Task \/ Recv \/ RecvNone \/ Drop

Spec == Init /\ [][Next]_vars

\* The same program with responses longer than the channel's capacity.
BurstNext == Next \/ SseBurstFrame
BurstSpec == Init /\ [][BurstNext]_vars

\* The runtime schedules the call and the spawned task, the network answers
\* or fails, and the consumer keeps polling while it holds the stream.
FairSpec == Spec /\ WF_vars(Call) /\ WF_vars(Task) /\ WF_vars(Recv \/ RecvNone)

\* ================================================================== claims
\* A terminal value of a stream: Completed or an error.
IsTerminal(e) == e.kind \in {"Completed", "Error"}
\* The events of all sends, in order, whatever their outcome.
EmittedEvents == [i \in 1..Len(emitted) |-> emitted[i].ev]
\* The events of the sends that completed: the values put on the channel.
SentEvents ==
    LET s == SelectSeq(emitted, LAMBDA e : e.ok) IN [i \in 1..Len(s) |-> s[i].ev]
\* s is zero or more OutputItemDone followed by the one event `last`.
ItemsThen(s, last) ==
    /\ Len(s) >= 1
    /\ s[Len(s)] = last
    /\ \A i \in 1..(Len(s) - 1) : s[i].kind = "OutputItemDone"
\* The frames read so far that are terminal envelopes carrying a decodable id.
EnvelopeIdx ==
    { i \in 1..Len(frames) :
        /\ frames[i].json /\ frames[i].kind = "response.completed"
        /\ IsSome(frames[i].response) /\ Unwrap(frames[i].response) \in Ids }
LastEnvelopeId ==
    Unwrap(frames[CHOOSE i \in EnvelopeIdx : \A j \in EnvelopeIdx : j <= i].response)
SseDone(how) ==
    /\ wire_api = "Responses" /\ task_pc = "done" /\ ended = how

\* C1: on the Responses and Gemini paths the values sent on the channel hold
\* at most one terminal value (Completed or error), and it is the last value
\* sent: nothing follows it, so never both a Completed and an error.
C1_TerminalIsLast ==
    wire_api # "Chat" =>
        \A i \in 1..Len(SentEvents) : IsTerminal(SentEvents[i]) => i = Len(SentEvents)

\* C1 witness: process_sse has sent an item and then its terminal value.
C1_Witness ==
    /\ SseDone("closed")
    /\ Len(SentEvents) = 2
    /\ SentEvents[1].kind = "OutputItemDone"
    /\ SentEvents[2].kind = "Completed"

\* A step of the call, of the producing task or of a consumer that reads.
Progress == Call \/ Task \/ Recv \/ RecvNone
\* A bound on the steps left to the call, the task and the consumer: every
\* step lowers it, so no behaviour takes steps forever.
CallMeasure ==
    IF call_pc = "returned" THEN 0
    ELSE 4 * (MaxRetries + 2 - attempt)
         + (IF call_pc \in {"start", "request"} THEN 3
            ELSE IF call_pc = "sleep" THEN 2 ELSE 1)
TaskMeasure ==
    IF task_pc \in {"none", "done"} THEN 0
    ELSE IF task_pc = "final_send" THEN 1
    ELSE IF task_pc \in {"read", "chat"} THEN 3 * (MaxFrames - Len(frames)) + 2
    ELSE IF task_pc \in {"sse_send", "chat_send"} THEN 3 * (MaxFrames - Len(frames)) + 3
    ELSE 2 * Cardinality(TextsAfter(Unwrap(doc), pos))
         + (IF task_pc = "gemini" THEN 2 ELSE 3)
MaxTaskMeasure == 3 * MaxFrames + 2 * MaxCands * MaxParts + 3
Measure ==
    (3 * MaxTaskMeasure + 3) * CallMeasure + 3 * TaskMeasure + Len(chan)
    + (IF eos THEN 0 ELSE 1) + (IF rx_event = "alive" THEN 1 ELSE 0)

\* C2: with a consumer that keeps reading and never drops the stream, on the
\* Responses and Gemini paths the consumer reads exactly one terminal value,
\* as the last value, and then end-of-stream: the call, the task and the
\* consumer stop only there (while it is not reached one of them has a step,
\* and every step lowers Measure, so it is reached).  The producer never
\* closes the channel before a terminal value was sent, and once the consumer
\* has read the terminal value nothing more is buffered or sent.
C2_ObservedTerminal ==
    /\ Len(got) >= 1
    /\ \A i \in 1..Len(got) : IsTerminal(got[i]) <=> i = Len(got)
C2_Safe ==
    (wire_api # "Chat" /\ result.kind = "stream" /\ rx_event = "alive") =>
        /\ ~tx_open => (Len(SentEvents) >= 1 /\ IsTerminal(SentEvents[Len(SentEvents)]))
        /\ eos => C2_ObservedTerminal
        /\ (got # << >> /\ IsTerminal(got[Len(got)])) =>
              (chan = << >> /\ ~tx_open /\ task_pc \in {"none", "done"})
        /\ (eos /\ C2_ObservedTerminal) \/ ENABLED Progress
C3_WellFormedSession ==
    /\ SseDone("closed")
    /\ \A i \in 1..Len(frames) : frames[i].json
    /\ EnvelopeIdx # {}
C3_ItemsThenCompleted ==
    C3_WellFormedSession =>
        /\ ItemsThen(EmittedEvents, [kind |-> "Completed", val |-> << LastEnvelopeId >>])
        /\ rx_event = "alive" => SentEvents = EmittedEvents

\* C3 witness: an item, then the envelope, then the close.
C3_Witness ==
    /\ C3_WellFormedSession
    /\ Len(frames) = 2 /\ frames[1].kind = "response.output_item.done"
    /\ Len(EmittedEvents) = 2

\* C4: when the transport closes and no terminal envelope was ever read, what
\* process_sse emitted ends with the one stream error "stream closed before
\* response.completed", everything before it is OutputItemDone, and there is
\* no Completed.
C4_NoEnvelope ==
    /\ SseDone("closed")
    /\ \A i \in 1..Len(frames) : ~(frames[i].json /\ frames[i].kind = "response.completed")
C4_ClosedWithoutEnvelope ==
    C4_NoEnvelope =>
        ItemsThen(EmittedEvents,
                  [kind |-> "Error", val |-> << "stream closed before response.completed" >>])

\* C4 witness: two items were forwarded before the close.
C4_Witness ==
    /\ C4_NoEnvelope
    /\ Len(EmittedEvents) = 3

\* C5: when no frame arrives within the idle timeout, what process_sse
\* emitted ends with the one idle-timeout stream error, everything before it
\* is OutputItemDone, there is no Completed even if a response id was
\* captured, and no frame is read afterwards.
C5_TimedOut == wire_api = "Responses" /\ ended = "idle_timeout"
C5_State ==
    /\ (C5_TimedOut /\ task_pc = "final_send") =>
          /\ Unwrap(pending) = [kind |-> "Error", val |-> << "idle timeout waiting for SSE" >>]
          /\ \A i \in 1..Len(EmittedEvents) : EmittedEvents[i].kind = "OutputItemDone"
    /\ (C5_TimedOut /\ task_pc # "final_send") =>
          /\ task_pc = "done"
          /\ ItemsThen(EmittedEvents,
                       [kind |-> "Error", val |-> << "idle timeout waiting for SSE" >>])
C5_IdleTimeout ==
    /\ []C5_State
    /\ [][C5_TimedOut => (frames' = frames /\ response_id' = response_id
                          /\ task_pc' \in {"final_send", "done"})]_vars

\* C5 witness: an item was forwarded and an id captured before the timeout.
C5_Witness ==
    /\ C5_TimedOut /\ task_pc = "done"
    /\ IsSome(response_id)
    /\ Len(EmittedEvents) = 2

\* Status 429 or 5xx, as the claims word it.
Is429Or5xx(s) == s = 429 \/ s \div 100 = 5
\* The latest response is a 429 or 5xx one and the call is still handling it
\* (no further request was issued since).
RetryableResponse == res.kind = "status" /\ Is429Or5xx(res.status)

\* C6, as claimed: a 429/5xx response makes the executor sleep and go on
\* while the number of consecutive such responses is at most the ceiling, and
\* RetryLimit is returned on the (ceiling+1)-th such response.
C6_Original ==
    RetryableResponse =>
        IF consec <= MaxRetries
        THEN call_pc \in {"sleep", "loop"} /\ result = NoResult
        ELSE call_pc = "returned" /\ result = ErrResult("RetryLimit", res.status, "")

\* C6, amended: attempts are counted over the whole call, transport failures
\* included.  A 429/5xx response to attempt a <= ceiling makes the executor
\* sleep once and go on to a further request without returning anything; a
\* 429/5xx response to attempt ceiling+1 returns RetryLimit with that status.
\* (The sleep and the next request are each the one step the call can take.)
C6_State ==
    RetryableResponse =>
        IF attempt <= MaxRetries
        THEN /\ call_pc \in {"sleep", "loop"} /\ result = NoResult
             /\ sleeps = (IF call_pc = "sleep" THEN attempt - 1 ELSE attempt)
             /\ requests = attempt
        ELSE /\ attempt = MaxRetries + 1
             /\ call_pc = "returned"
             /\ result = ErrResult("RetryLimit", res.status, "")
C6_RetryByAttempt ==
    /\ []C6_State
    /\ [](RetryableResponse /\ call_pc = "sleep" => ENABLED Sleep)
    /\ [](RetryableResponse /\ call_pc = "loop" => ENABLED (ResponsesSend \/ GeminiSend))
    /\ [][(RetryableResponse /\ call_pc = "loop" /\ call_pc' # "loop") =>
            (call_pc' = "request" /\ requests' = requests + 1 /\ result' = NoResult)]_vars

\* C6 witness: RetryLimit returned although a transport failure took one of
\* the attempts, so fewer than ceiling+1 responses were 429/5xx.
C6_Witness ==
    /\ result.kind = "RetryLimit"
    /\ consec <= MaxRetries
    /\ attempt = MaxRetries + 1

\* C7: a non-success status that is neither 429 nor 5xx returns
\* UnexpectedStatus with that status and the body read from the response
\* (empty when it cannot be read), on whichever attempt, with no sleep for
\* it, no stream, nothing spawned, and nothing done afterwards.
C7_Unexpected ==
    res.kind = "status" /\ ~(res.status \div 100 = 2) /\ ~Is429Or5xx(res.status)
C7_State ==
    C7_Unexpected =>
        /\ call_pc = "returned"
        /\ result.kind = "UnexpectedStatus"
        /\ result.status = res.status
        /\ result.body = (IF IsSome(res.body) THEN Unwrap(res.body) ELSE "")
        /\ IsNone(delay) /\ sleeps = attempt - 1 /\ requests = attempt
        /\ spawned = 0 /\ rx_event = "none"
C7_UnexpectedStatus ==
    /\ []C7_State
    /\ [][C7_Unexpected => UNCHANGED vars]_vars
    /\ [][result'.kind = "UnexpectedStatus" => C7_Unexpected']_vars

\* C7 witness: a 404 on a later attempt, after a retry.
C7_Witness ==
    /\ C7_Unexpected /\ res.status = 404
    /\ attempt = 2 /\ result.body = "detail"

\* C8: once an attempt got a success response, no further request is issued,
\* no sleep is taken and the attempt counter stays, whatever happens on the
\* stream or to the body; and a call that returned stays returned.
C8_Succeeded == call_pc = "bytes" \/ (wire_api # "Chat" /\ result.kind = "stream")
C8_NoRetryAfterSuccess ==
    /\ [][C8_Succeeded =>
            /\ requests' = requests /\ attempt' = attempt /\ sleeps' = sleeps
            /\ call_pc' \in {"bytes", "returned"}
            /\ C8_Succeeded' \/ (wire_api = "Gemini" /\ result'.kind = "Reqwest")]_vars
    /\ [][call_pc = "returned" => (call_pc' = "returned" /\ result' = result
                                   /\ requests' = requests)]_vars

\* C8 witness: the stream of a second attempt failed by idle timeout.
C8_Witness ==
    /\ wire_api = "Responses" /\ result.kind = "stream"
    /\ task_pc = "done" /\ ended = "idle_timeout"
    /\ requests = 2

\* C9: once a send has failed (the consumer dropped the stream), the task
\* reads no further frame, no further request is made and no further send is
\* attempted.
C9_SendFailed == \E i \in 1..Len(emitted) : ~emitted[i].ok
C9_StopsAfterSendFailure ==
    [][C9_SendFailed => (frames' = frames /\ requests' = requests /\ emitted' = emitted)]_vars

\* The texts of a document in document order, by recursion on its structure.
RECURSIVE PartsTexts(_, _), CandidatesTexts(_, _)
PartsTexts(ps, k) ==
    IF k > Len(ps) THEN << >>
    ELSE (IF IsSome(ps[k].text) THEN << Unwrap(ps[k].text) >> ELSE << >>)
         \o PartsTexts(ps, k + 1)
CandidatesTexts(cs, c) ==
    IF c > Len(cs) THEN << >>
    ELSE (IF IsSome(cs[c].content) /\ IsSome(Unwrap(cs[c].content).parts)
          THEN PartsTexts(Unwrap(Unwrap(cs[c].content).parts), 1) ELSE << >>)
         \o CandidatesTexts(cs, c + 1)
DocTexts(d) == IF IsNone(d.candidates) THEN << >> ELSE CandidatesTexts(Unwrap(d.candidates), 1)
ExpectedItems(d) ==
    LET t == DocTexts(d) IN
    [i \in 1..Len(t) |-> [kind |-> "OutputItemDone", val |-> << "Message", "assistant", t[i] >>]]
IsPrefix(s, t) == Len(s) <= Len(t) /\ \A i \in 1..Len(s) : s[i] = t[i]

\* C10: Gemini, decoded document with N text parts, consumer not dropped:
\* the task sends the N parts in document order as OutputItemDone(Message,
\* role "assistant"), then exactly one Completed with a generated id, and
\* every one of them reaches the consumer's side of the channel.
C10_GeminiEvents ==
    (wire_api = "Gemini" /\ IsSome(doc) /\ rx_event = "alive") =>
        LET exp == ExpectedItems(Unwrap(doc)) IN
        /\ \A i \in 1..Len(emitted) : emitted[i].ok /\ emitted[i].by = "task"
        /\ got \o chan = EmittedEvents
        /\ IF task_pc = "done"
           THEN /\ Len(EmittedEvents) = Len(exp) + 1
                /\ IsPrefix(exp, EmittedEvents)
                /\ EmittedEvents[Len(exp) + 1].kind = "Completed"
                /\ EmittedEvents[Len(exp) + 1].val[1] \in Uuids
           ELSE IsPrefix(EmittedEvents, exp)

\* C10 witness: two text parts in two candidates were sent, then Completed.
C10_Witness ==
    /\ wire_api = "Gemini" /\ IsSome(doc) /\ rx_event = "alive" /\ task_pc = "done"
    /\ Len(DocTexts(Unwrap(doc))) = 2
    /\ Len(Unwrap(Unwrap(doc).candidates)) = 2
    /\ Len(got) = 3

\* C10 witness for the empty case: no candidates at all, Completed alone.
C10_WitnessEmpty ==
    /\ wire_api = "Gemini" /\ IsSome(doc) /\ rx_event = "alive" /\ task_pc = "done"
    /\ IsNone(Unwrap(doc).candidates)
    /\ Len(got) = 1

\* The number of seconds a Retry-After value stands for, when it is a number.
HeaderIsNumeric(h) == h \in {<< "0" >>, << "2" >>}
HeaderSeconds(h) == IF h = << "0" >> THEN 0 ELSE 2

\* C11: on the Responses and on the Gemini path, the delay slept before the
\* retry of a retryable response is the numeric Retry-After value of that
\* response in milliseconds, and the computed backoff of the attempt only
\* when the header is absent or not a number.
C11_RetryAfterPrecedence ==
    (call_pc = "sleep" /\ res.kind = "status") =>
        delay = << IF HeaderIsNumeric(res.header)
                   THEN << "millis", HeaderSeconds(res.header) * 1000 >>
                   ELSE << "backoff", attempt >> >>

\* The events of a sequence that are not terminal.
NonTerminal(s) == SelectSeq(s, LAMBDA e : ~IsTerminal(e))
\* The output items the frames read so far carry, in the order of the frames.
RECURSIVE FinalizedItems(_, _)
FinalizedItems(fs, k) ==
    IF k > Len(fs) THEN << >>
    ELSE (IF fs[k].json /\ fs[k].kind = "response.output_item.done"
             /\ fs[k].item \in {<< "i1" >>, << "i2" >>}
          THEN << [kind |-> "OutputItemDone", val |-> << "item", fs[k].item[1] >>] >>
          ELSE << >>)
         \o FinalizedItems(fs, k + 1)
\* The producer sends events in the order in which it finalizes them.
C12_SentAsFinalized ==
    LET em == EmittedEvents
        items == NonTerminal(em)
    IN  /\ wire_api = "Responses" =>
              LET fin == FinalizedItems(frames, 1) IN IsPrefix(items, fin)
        /\ wire_api = "Chat" => IsPrefix(em, frames)
        /\ (wire_api = "Gemini" /\ IsSome(doc)) =>
              LET exp == ExpectedItems(Unwrap(doc)) IN IsPrefix(items, exp)

\* C12: events reach the consumer in the order in which they are finalized:
\* in every state the sequence the consumer has read is a prefix of the
\* sequence the producer has sent, and while the consumer holds the stream
\* what it has read followed by what is buffered is exactly what was sent
\* (nothing reordered, duplicated, lost or merged), a full channel included.
C12_InOrder ==
    LET em == EmittedEvents
        sent == SentEvents
    IN  /\ C12_SentAsFinalized
        /\ IsPrefix(sent, em)
        /\ IsPrefix(got, sent)
        /\ rx_event = "alive" => got \o chan = sent

\* C12 witness: the channel is full behind an event the consumer has read,
\* and the producer waits in the send of the next one.
C12_Witness ==
    /\ rx_event = "alive" /\ Len(chan) = 16 /\ Len(got) = 1
    /\ task_pc = "sse_send" /\ got[1] # chan[1]

\* The call needs a credential and none is configured.
C13_NoCredential == wire_api \in {"Responses", "Gemini"} /\ ~fixture /\ ~has_key

\* C13: on the Responses and on the Gemini path a missing credential is
\* reported before any request: a call that has failed with the EnvVar error
\* has issued no HTTP request, has not slept, has spawned nothing, and takes
\* no further step (no retry); and a call without a credential never issues
\* a request and returns nothing but that error.
C13_EnvVarBeforeRequest ==
    /\ result.kind = "EnvVar" =>
          /\ requests = 0 /\ sleeps = 0 /\ spawned = 0
          /\ call_pc = "returned"
          /\ ~ENABLED Call
    /\ C13_NoCredential =>
          /\ requests = 0
          /\ call_pc = "returned" => result.kind = "EnvVar"

\* C13 witness: the Responses call failed with EnvVar in its first pass of
\* the loop, where the credential is resolved.
C13_Witness ==
    wire_api = "Responses" /\ result.kind = "EnvVar" /\ attempt = 1 /\ requests = 0

\* C13 witness on the Gemini path: the failure precedes the loop.
C13_WitnessGemini ==
    wire_api = "Gemini" /\ result.kind = "EnvVar" /\ attempt = 0 /\ requests = 0

\* The latest request failed at the transport level.
C14_TransportFailed == res.kind = "transport"
C14_State ==
    C14_TransportFailed =>
        IF attempt > MaxRetries
        THEN /\ call_pc = "returned"
             /\ result.kind = "Reqwest"
             /\ spawned = 0 /\ rx_event = "none"
             /\ ~ENABLED Call
        ELSE /\ result = NoResult
             /\ \/ /\ call_pc = "sleep"
                   /\ delay = << << "backoff", attempt >> >>
                   /\ sleeps = attempt - 1
                   /\ ENABLED Sleep
                \/ /\ call_pc = "loop"
                   /\ sleeps = attempt
                   /\ ENABLED (ResponsesSend \/ GeminiSend)

\* C14: a transport failure of attempt a, with retry ceiling M, on the
\* Responses and on the Gemini path: when a > M the call returns the
\* transport error (never RetryLimit) and does nothing more; otherwise it
\* returns nothing, sleeps backoff(a) once, and its next step after the sleep
\* issues a further request.
C14_TransportFailure ==
    /\ []C14_State
    /\ [][(C14_TransportFailed /\ call_pc = "loop" /\ call_pc' # "loop") =>
            (call_pc' = "request" /\ requests' = requests + 1
             /\ attempt' = attempt + 1 /\ result' = NoResult)]_vars

\* C14 witness: every attempt failed at the transport level and the call
\* returned the transport error after ceiling sleeps.
C14_Witness ==
    /\ C14_TransportFailed /\ result.kind = "Reqwest"
    /\ attempt = MaxRetries + 1 /\ sleeps = MaxRetries /\ consec = 0

\* C15: a call of stream() that returned a ResponseStream has spawned exactly
\* one producing task, and every value sent to the stream's channel was sent
\* by that task; a call that returned an error has spawned none.
C15_OneTaskSoleWriter ==
    call_pc = "returned" =>
        IF result.kind = "stream"
        THEN /\ spawned = 1
             /\ \A i \in 1..Len(emitted) : emitted[i].by = "task"
        ELSE spawned = 0

\* The Gemini call returned a stream although the body did not decode.
C16_DecodeFailed == wire_api = "Gemini" /\ result.kind = "stream" /\ IsNone(doc)

\* C16: Gemini, a 2xx response whose body does not decode: exactly one value
\* is ever sent on the returned stream and it is a stream error (no
\* OutputItemDone, no Completed); the sending side is closed, so a consumer
\* that keeps the stream reads that error and then the end of the stream;
\* and the call takes no further step: no retry, no further request.
C16_DecodeFailure ==
    C16_DecodeFailed =>
        LET em == EmittedEvents IN
        /\ Len(em) = 1 /\ em[1].kind = "Error"
        /\ ~tx_open /\ IsNone(pending)
        /\ rx_event = "alive" => got \o chan = em
        /\ (rx_event = "alive" /\ ~eos) => ENABLED (Recv \/ RecvNone)
        /\ eos => got = em
        /\ call_pc = "returned" /\ requests = attempt /\ sleeps = attempt - 1
        /\ ~ENABLED Call /\ ~ENABLED Task

\* C16 witness: the consumer read the one error and then the end of stream.
C16_Witness ==
    C16_DecodeFailed /\ eos /\ Len(got) = 1 /\ got[1].kind = "Error" /\ requests = 1

\* process_sse has left its loop: it is in its last send or has returned.
C17_Left == wire_api = "Responses" /\ (ended # "no" \/ task_pc = "done")
\* The number of stream errors among the events of a sequence.
C17_Errors(s) == Cardinality({i \in 1..Len(s) : s[i].kind = "Error"})
C17_State ==
    /\ (wire_api = "Responses" /\ ended = "frame_err") =>
          IF task_pc = "done"
          THEN /\ ItemsThen(EmittedEvents, StreamErr("sse error"))
               /\ C17_Errors(EmittedEvents) = 1
          ELSE /\ task_pc = "final_send"
               /\ pending = << StreamErr("sse error") >>
               /\ C17_Errors(EmittedEvents) = 0
    /\ (wire_api = "Responses" /\ task_pc = "done") =>
          /\ ~tx_open /\ IsNone(pending)
          /\ ~ENABLED Task

\* C17: a frame-level error of the transport makes process_sse send exactly
\* one stream error and return; and once process_sse has left its loop by
\* any route (completion, frame error, close without completion, idle
\* timeout, failed send) it reads no further frame, and once it has returned
\* it attempts no further send and never resumes.
C17_DoneAbsorbing ==
    /\ []C17_State
    /\ [][C17_Left =>
            /\ frames' = frames /\ response_id' = response_id /\ ended' = ended
            /\ Len(emitted') <= Len(emitted) + 1
            /\ task_pc = "done" =>
                  /\ task_pc' = "done" /\ emitted' = emitted
                  /\ pending' = pending /\ tx_open' = tx_open
                  /\ Len(chan') <= Len(chan)]_vars

\* C17 witness: a frame error after one forwarded item; the error was sent
\* and read, and the task has returned.
C17_Witness ==
    /\ wire_api = "Responses" /\ ended = "frame_err" /\ task_pc = "done"
    /\ Len(got) = 2 /\ got[1].kind = "OutputItemDone" /\ got[2].kind = "Error"

\* A frame to be skipped: its data is not an envelope, its kind is unknown
\* or one of the ignored kinds, or it is an output_item.done whose item is
\* missing or does not decode.
C18_Skipped(f) ==
    \/ ~f.json
    \/ f.kind \notin {"response.output_item.done", "response.completed"}
    \/ f.kind = "response.output_item.done" /\ f.item \notin {<< "i1" >>, << "i2" >>}
\* This step of process_sse reads a frame that is to be skipped.
C18_ReadsSkipped ==
    /\ wire_api = "Responses"
    /\ Len(frames') = Len(frames) + 1
    /\ C18_Skipped(frames'[Len(frames')])

\* C18: reading a frame that does not decode as an envelope, has an unknown
\* or ignored kind, or is an output_item.done without a decodable item sends
\* nothing, prepares nothing to send (no event, no stream error), leaves
\* response_id as it was, does not end the stream, and leaves process_sse at
\* the read of the next frame.
C18_TolerantSkip ==
    [][C18_ReadsSkipped =>
         /\ emitted' = emitted /\ pending' = << >> /\ chan' = chan
         /\ response_id' = response_id
         /\ task_pc' = "read" /\ ended' = "no" /\ tx_open' = tx_open]_vars

\* C18 witness: a skipped frame was followed by an item frame whose item was
\* forwarded and read, and process_sse is reading on.
C18_Witness ==
    /\ wire_api = "Responses" /\ Len(frames) = 2
    /\ C18_Skipped(frames[1]) /\ ~C18_Skipped(frames[2])
    /\ Len(got) = 1 /\ got[1].kind = "OutputItemDone"
    /\ task_pc = "read"

\* This step of process_sse reads a "response.completed" frame.
C19_ReadsEnvelope ==
    /\ wire_api = "Responses"
    /\ Len(frames') = Len(frames) + 1
    /\ frames'[Len(frames')].json
    /\ frames'[Len(frames')].kind = "response.completed"
\* Completed has been sent, or is the value of the send in progress.
C19_Completing ==
    \/ \E i \in 1..Len(emitted) : emitted[i].ev.kind = "Completed"
    \/ (IsSome(pending) /\ pending[1].kind = "Completed")
C19_State ==
    wire_api = "Responses" =>
        /\ C19_Completing => ended = "closed"
        /\ ended = "closed" =>
              LET items == FinalizedItems(frames, 1) IN
              /\ IsPrefix(items, EmittedEvents)
              /\ \A i \in 1..Len(items) : emitted[i].ok
              /\ Len(emitted) <= Len(items) + 1
              /\ IF Len(emitted) = Len(items) + 1
                 THEN task_pc = "done" /\ IsTerminal(emitted[Len(emitted)].ev)
                 ELSE task_pc = "final_send" /\ IsTerminal(pending[1])

\* C19: reading a "response.completed" frame sends nothing, prepares no send
\* and does not end the stream: process_sse records the id, when the frame
\* carries a decodable one, and goes on reading.  Completed is sent only
\* once the transport has closed, and by then every decodable
\* output_item.done frame read, those after the "response.completed" frame
\* too, has been sent as OutputItemDone, in order, before it.
C19_CompletedOnlyAtClose ==
    /\ []C19_State
    /\ [][C19_ReadsEnvelope =>
            /\ emitted' = emitted /\ pending' = << >> /\ chan' = chan
            /\ task_pc' = "read" /\ ended' = "no" /\ tx_open' = tx_open
            /\ frames'[Len(frames')].response \in {<< "r1" >>, << "r2" >>} =>
                  response_id' = frames'[Len(frames')].response]_vars

\* C19 witness: the "response.completed" frame came first, an item frame
\* after it; the consumer read the item and then Completed with the id.
C19_Witness ==
    /\ wire_api = "Responses" /\ ended = "closed" /\ Len(frames) = 2
    /\ frames[1].kind = "response.completed" /\ frames[1].response = << "r1" >>
    /\ frames[2].kind = "response.output_item.done"
    /\ Len(got) = 2 /\ got[1].kind = "OutputItemDone" /\ got[2] = Completed("r1")

\* The channel is full while the consumer holds the stream.
C20_Full == rx_event = "alive" /\ Len(chan) = 16

\* C20: the channel between producer and consumer holds at most 16 values:
\* the values sent and not yet read are the values buffered, never more than
\* 16.  A producer in a send whose channel is full can take no step (it
\* reads no frame and sends nothing) and waits for the consumer, which can
\* read a value or drop the stream; in any other send it can go on.
C20_BoundedChannel ==
    /\ Len(chan) <= 16
    /\ rx_event = "alive" => Len(SentEvents) - Len(got) = Len(chan)
    /\ task_pc \in Sending =>
          IF C20_Full
          THEN /\ IsSome(pending)
               /\ ~ENABLED Task
               /\ ENABLED Recv /\ ENABLED Drop
          ELSE ENABLED (SendOk \/ SendFail)

\* C20 witness: the consumer has read nothing, sixteen items are buffered,
\* and the producer waits in the send of the seventeenth.
C20_Witness ==
    /\ C20_Full /\ Len(got) = 0
    /\ task_pc = "sse_send" /\ Len(frames) = 17 /\ Len(emitted) = 16

\* The call is on a path that goes through a retry loop.
C21_Retrying == wire_api \in {"Responses", "Gemini"} /\ ~fixture
C21_State ==
    C21_Retrying =>
        /\ requests <= MaxRetries + 1
        /\ sleeps <= MaxRetries
        /\ requests <= attempt /\ attempt <= MaxRetries + 1
        /\ call_pc # "returned" => ENABLED Call
        /\ call_pc = "returned" =>
              \/ result.kind \in {"stream", "UnexpectedStatus", "RetryLimit", "Reqwest"}
              \/ (requests = 0 /\ result.kind = "EnvVar")
        /\ (call_pc = "returned" /\ requests >= 1) => result.kind # "EnvVar"
        /\ result.kind = "RetryLimit" =>
              /\ res.kind = "status" /\ Is429Or5xx(res.status)
              /\ result.status = res.status
              /\ attempt = MaxRetries + 1

\* C21: on the Responses and on the Gemini path every request, whatever its
\* outcome (transport failure or status), advances the one attempt counter:
\* with retry ceiling M a call issues at most M+1 requests and sleeps at most
\* M times.  While the call has not returned it has a step, and every step
\* of the call lowers CallMeasure, so the call returns; a call that issued a
\* request returns a stream, UnexpectedStatus, RetryLimit or a transport
\* error (the only other return is the missing credential, before any
\* request); and RetryLimit is returned only for a 429 or 5xx status.
C21_BoundedAttempts ==
    /\ []C21_State
    /\ [][(C21_Retrying /\ << call_pc, attempt >>' # << call_pc, attempt >>) =>
            (CallMeasure' < CallMeasure /\ CallMeasure' >= 0
             /\ attempt' >= attempt /\ requests' >= requests)]_vars

\* C21 witness: the first M attempts failed and were retried, and attempt
\* M+1 succeeded: M+1 requests, M sleeps, a stream.
C21_Witness ==
    /\ C21_Retrying /\ call_pc = "returned" /\ result.kind = "stream"
    /\ requests = MaxRetries + 1 /\ sleeps = MaxRetries
    /\ wire_api = "Responses"

\* The frames read so far that are "response.completed" with a decodable id.
C22_IdFrames ==
    { i \in 1..Len(frames) :
        /\ frames[i].json /\ frames[i].kind = "response.completed"
        /\ frames[i].response \in {<< "r1" >>, << "r2" >>} }
\* The id of the most recent of them.
C22_LatestId ==
    frames[CHOOSE i \in C22_IdFrames : \A j \in C22_IdFrames : j <= i].response[1]
\* The terminal value process_sse sends at the close of the transport.
C22_AtClose == IF task_pc = "done" THEN emitted[Len(emitted)].ev ELSE pending[1]

\* C22: process_sse holds the id of the most recent "response.completed"
\* frame that carried a decodable id, and none when there was no such frame:
\* frames without a response object or with an undecodable one change
\* nothing.  At the close of the transport it sends Completed with that id
\* if and only if there was such a frame, and the error "stream closed
\* before response.completed" otherwise, also when a "response.completed"
\* frame without a decodable id was read.
C22_CompletedIffIdCaptured ==
    wire_api = "Responses" =>
        /\ response_id = (IF C22_IdFrames = {} THEN << >> ELSE << C22_LatestId >>)
        /\ ended = "closed" =>
              /\ task_pc \in {"final_send", "done"}
              /\ C22_AtClose =
                    (IF C22_IdFrames = {}
                     THEN [kind |-> "Error",
                           val |-> << "stream closed before response.completed" >>]
                     ELSE [kind |-> "Completed", val |-> << C22_LatestId >>])

\* C22 witness: an envelope with id r1, then one with an undecodable
\* response; after the close the consumer read Completed with r1.
C22_Witness ==
    /\ wire_api = "Responses" /\ ended = "closed" /\ Len(frames) = 2
    /\ frames[1].kind = "response.completed" /\ frames[1].response = << "r1" >>
    /\ frames[2].kind = "response.completed" /\ frames[2].response = << "undecodable" >>
    /\ got = << Completed("r1") >>

\* C22 witness: the only envelope has no response object; the consumer read
\* the close-before-completed error.
C22_WitnessNoId ==
    /\ wire_api = "Responses" /\ ended = "closed" /\ Len(frames) = 1
    /\ frames[1].json /\ frames[1].kind = "response.completed" /\ frames[1].response = << >>
    /\ got = << StreamErr("stream closed before response.completed") >>

\* C22 witness: two envelopes with different ids; Completed carries the later.
C22_WitnessLatest ==
    /\ wire_api = "Responses" /\ ended = "closed" /\ Len(frames) = 2
    /\ frames[1].response = << "r1" >> /\ frames[2].response = << "r2" >>
    /\ got = << Completed("r2") >>

====
